---- MODULE Spec2Model ----
(***************************************************************************)
(* Git-Seer: the static report (seer.py) and the interactive tree browser  *)
(* (seer-tui.py).  Python strings are sequences of one-character strings,  *)
(* so that split, rsplit, rpartition, sorted and the substring tests are   *)
(* computed the way the code computes them.                                *)
(***************************************************************************)
EXTENDS Integers, Sequences, FiniteSets, TLC

\* Longest listing (number of entries) a response may carry.
MaxLen == 2

\* Python's None, and a value that is not None: an optional value is the
\* empty set or a singleton.
None == {}

\* a value that is not None
Some(x) == {x}

\* the value of an optional that is not None
Get(o) == CHOOSE x \in o : TRUE

(* ------------------------------ strings ------------------------------ *)

\* The characters of paths and names, by class, each in code point order.
Punct == <<"-", ".", "/">>

\* '0' .. '9'
Digits == <<"0", "1", "2", "3", "4", "5", "6", "7", "8", "9">>

\* 'A' .. 'Z'
Upper ==
  <<"A", "B", "C", "D", "E", "F", "G", "H", "I", "J", "K", "L", "M", "N", "O", "P", "Q", "R", "S", "T", "U", "V", "W", "X", "Y", "Z">>

\* 'a' .. 'z'
LowerCase ==
  <<"a", "b", "c", "d", "e", "f", "g", "h", "i", "j", "k", "l", "m", "n", "o", "p", "q", "r", "s", "t", "u", "v", "w", "x", "y", "z">>

\* the index of c in q
IndexOf(q, c) == CHOOSE i \in 1..Len(q) : q[i] = c

\* the elements of a sequence
Range(q) == {q[i] : i \in 1..Len(q)}

\* ord(c)
Code(c) ==
  IF c \in Range(Punct) THEN 44 + IndexOf(Punct, c)
  ELSE IF c \in Range(Digits) THEN 47 + IndexOf(Digits, c)
  ELSE IF c \in Range(Upper) THEN 64 + IndexOf(Upper, c)
  ELSE IF c = "_" THEN 95
  ELSE 96 + IndexOf(LowerCase, c)

\* str.lower() of one character
LowerChar(c) == IF c \in Range(Upper) THEN LowerCase[IndexOf(Upper, c)] ELSE c

\* str.lower()
Lower(s) == [i \in 1..Len(s) |-> LowerChar(s[i])]

\* s < t for Python strings: code point wise, a proper prefix first
RECURSIVE StrLess(_, _)
StrLess(s, t) ==
  IF t = <<>> THEN FALSE
  ELSE IF s = <<>> THEN TRUE
  ELSE IF s[1] # t[1] THEN Code(s[1]) < Code(t[1])
  ELSE StrLess(Tail(s), Tail(t))

\* s.startswith(p)
StartsWith(s, p) == Len(p) <= Len(s) /\ SubSeq(s, 1, Len(p)) = p

\* s.endswith(p)
EndsWith(s, p) == Len(p) <= Len(s) /\ SubSeq(s, Len(s) - Len(p) + 1, Len(s)) = p

\* p in s
Contains(s, p) == \E i \in 0..(Len(s) - Len(p)) : SubSeq(s, i + 1, i + Len(p)) = p

\* the positions of character c in s
Positions(s, c) == {i \in 1..Len(s) : s[i] = c}

\* max of a non-empty set of integers
Max(S) == CHOOSE m \in S : \A x \in S : x <= m

\* min of a non-empty set of integers
Min(S) == CHOOSE m \in S : \A x \in S : m <= x

\* s.split(c): the parts between the occurrences of c
RECURSIVE Split(_, _)
Split(s, c) ==
  IF Positions(s, c) = {} THEN <<s>>
  ELSE LET i == Min(Positions(s, c))
       IN  <<SubSeq(s, 1, i - 1)>> \o Split(SubSeq(s, i + 1, Len(s)), c)

\* s.rsplit(c, 1): split once at the last c
RSplit1(s, c) ==
  IF Positions(s, c) = {} THEN <<s>>
  ELSE LET i == Max(Positions(s, c))
       IN  <<SubSeq(s, 1, i - 1), SubSeq(s, i + 1, Len(s))>>

\* s.rpartition(c): (head, sep, tail) at the last c, ("", "", s) without one
RPartition(s, c) ==
  IF Positions(s, c) = {} THEN <<<<>>, <<>>, s>>
  ELSE LET i == Max(Positions(s, c))
       IN  <<SubSeq(s, 1, i - 1), <<c>>, SubSeq(s, i + 1, Len(s))>>

\* sorted(list(a set of strings))
RECURSIVE SortedSet(_)
SortedSet(S) ==
  IF S = {} THEN <<>>
  ELSE LET m == CHOOSE x \in S : \A y \in S : y = x \/ StrLess(x, y)
       IN  <<m>> \o SortedSet(S \ {m})

(* ------------------------------ entries ------------------------------ *)

\* One record of the listing: item['path'], item['type'].
Entry(p, k) == [path |-> p, type |-> k]

\* The entries a response may carry.
Entries ==
  { Entry(<<>>, "blob"),
    Entry(<<>>, "tree"),
    Entry(<<"a">>, "tree"),
    Entry(<<"a", "/", "b", ".", "p", "y">>, "blob"),
    Entry(<<"s", "r", "c", "/", ".", "e", "n", "v">>, "blob"),
    Entry(<<".", "p", "y">>, "blob"),
    Entry(<<"p", "a", "c", "k", "a", "g", "e", ".", "j", "s", "o", "n">>, "blob"),
    Entry(<<"p", "a", "c", "k", "a", "g", "e", ".", "j", "s", "o", "n">>, "tree"),
    Entry(<<"a", "/", "p", "a", "c", "k", "a", "g", "e", ".", "j", "s", "o", "n">>, "blob"),
    Entry(<<"G", "e", "m", "f", "i", "l", "e">>, "blob") }

\* The listings a response may carry: data['tree'].
Listings == UNION {[1..n -> Entries] : n \in 0..MaxLen}

(* ----------------------------- analyzers ----------------------------- *)

\* item['path'].split('/')[-1]
Basename(p) == Split(p, "/")[Len(Split(p, "/"))]

\* p.split('/')[0]
TopSegment(p) == Split(p, "/")[1]

\* {item['path'] for item in tree if item['type'] == 'blob'}
BlobPaths(tree) == {tree[i].path : i \in {j \in 1..Len(tree) : tree[j].type = "blob"}}

\* {item['path'] for item in tree if item['type'] == 'tree'}
TreePaths(tree) == {tree[i].path : i \in {j \in 1..Len(tree) : tree[j].type = "tree"}}

\* analyze_project_structure: the findings, in rule order
analyze_project_structure(tree) ==
  LET paths == BlobPaths(tree)
      tops  == {TopSegment(p) : p \in paths}
  IN  (IF \E p \in paths : StartsWith(p, <<"s", "r", "c", "/">>) THEN <<"src_layout">> ELSE <<>>)
      \o (IF <<"p", "a", "c", "k", "a", "g", "e", "s">> \in tops \/ <<"a", "p", "p", "s">> \in tops
          THEN <<"monorepo">> ELSE <<>>)
      \o (IF \E p \in paths : EndsWith(p, <<"m", "a", "n", "a", "g", "e", ".", "p", "y">>) THEN <<"django">> ELSE <<>>)
      \o (IF \E p \in paths :
               \/ EndsWith(p, <<"d", "o", "c", "k", "e", "r", "-", "c", "o", "m", "p", "o", "s", "e", ".", "y", "m", "l">>)
               \/ EndsWith(p, <<"D", "o", "c", "k", "e", "r", "f", "i", "l", "e">>)
          THEN <<"docker">> ELSE <<>>)
      \o (IF <<".", "g", "i", "t", "h", "u", "b", "/", "w", "o", "r", "k", "f", "l", "o", "w", "s">> \in TreePaths(tree)
          THEN <<"ci">> ELSE <<>>)

\* dep_files
dep_files ==
  { <<"p", "y", "p", "r", "o", "j", "e", "c", "t", ".", "t", "o", "m", "l">>,
    <<"r", "e", "q", "u", "i", "r", "e", "m", "e", "n", "t", "s", ".", "t", "x", "t">>,
    <<"p", "a", "c", "k", "a", "g", "e", ".", "j", "s", "o", "n">>,
    <<"g", "o", ".", "m", "o", "d">>,
    <<"p", "o", "m", ".", "x", "m", "l">>,
    <<"b", "u", "i", "l", "d", ".", "g", "r", "a", "d", "l", "e">>,
    <<"C", "a", "r", "g", "o", ".", "t", "o", "m", "l">>,
    <<"G", "e", "m", "f", "i", "l", "e">> }

\* found_files: the basenames in dep_files, of every item
found_files(tree) == {Basename(tree[i].path) : i \in {j \in 1..Len(tree) : Basename(tree[j].path) \in dep_files}}

\* analyze_dependencies
analyze_dependencies(tree) == SortedSet(found_files(tree))

\* smell_keywords
smell_keywords ==
  { <<".", "e", "n", "v">>,
    <<"s", "e", "c", "r", "e", "t">>,
    <<"c", "r", "e", "d", "e", "n", "t", "i", "a", "l", "s">>,
    <<"i", "d", "_", "r", "s", "a">>,
    <<".", "p", "e", "m">> }

\* any(keyword in item['path'].lower() for keyword in smell_keywords)
Smelly(p) == \E k \in smell_keywords : Contains(Lower(p), k)

\* analyze_code_smells: the matching paths, in listing order
RECURSIVE analyze_code_smells(_)
analyze_code_smells(tree) ==
  IF tree = <<>> THEN <<>>
  ELSE (IF Smelly(tree[1].path) THEN <<tree[1].path>> ELSE <<>>) \o analyze_code_smells(Tail(tree))

\* lang_map, as (extension, language) pairs
lang_map ==
  { <<<<".", "p", "y">>, "Python">>,
    <<<<".", "j", "s">>, "JavaScript">>,
    <<<<".", "t", "s">>, "TypeScript">>,
    <<<<".", "t", "s", "x">>, "TypeScript">>,
    <<<<".", "g", "o">>, "Go">>,
    <<<<".", "r", "s">>, "Rust">>,
    <<<<".", "j", "a", "v", "a">>, "Java">>,
    <<<<".", "r", "b">>, "Ruby">>,
    <<<<".", "c">>, "C">>,
    <<<<".", "c", "p", "p">>, "C++">>,
    <<<<".", "m", "d">>, "Markdown">>,
    <<<<".", "h", "t", "m", "l">>, "HTML">>,
    <<<<".", "c", "s", "s">>, "CSS">>,
    <<<<".", "y", "m", "l">>, "YAML">>,
    <<<<".", "j", "s", "o", "n">>, "JSON">> }

\* the languages of lang_map
Languages == {m[2] : m \in lang_map}

\* the language of an item analyze_languages counts, NoLang for an item it
\* passes over
NoLang == "none"

\* the body of the loop of analyze_languages up to lang = lang_map[ext]
LangOf(item) ==
  IF item.type # "blob" THEN NoLang
  ELSE LET parts == RSplit1(item.path, ".")
       IN  IF Len(parts) > 1
           THEN LET ext == <<".">> \o parts[Len(parts)]
                IN  IF \E m \in lang_map : m[1] = ext
                    THEN (CHOOSE m \in lang_map : m[1] = ext)[2]
                    ELSE NoLang
           ELSE NoLang

\* counts = {}: a dict of counters is a function on Languages, a key being
\* in the dict when its counter is not 0
EmptyCounts == [l \in Languages |-> 0]

\* the keys of a dict of counters
Keys(counts) == {l \in Languages : counts[l] > 0}

\* counts[lang] = counts.get(lang, 0) + 1
Bump(counts, lang) == [counts EXCEPT ![lang] = @ + 1]

\* analyze_languages: the loop over the items
RECURSIVE CountLanguages(_, _)
CountLanguages(tree, counts) ==
  IF tree = <<>> THEN counts
  ELSE CountLanguages(Tail(tree),
                      IF LangOf(tree[1]) = NoLang THEN counts ELSE Bump(counts, LangOf(tree[1])))

\* analyze_languages
analyze_languages(tree) == CountLanguages(tree, EmptyCounts)

(* ------------------------------ the tree ----------------------------- *)

\* sorted(..., key=lambda x: x['path']): stable, by insertion
RECURSIVE InsertByPath(_, _)
InsertByPath(q, item) ==
  IF q = <<>> THEN <<item>>
  ELSE IF StrLess(item.path, q[1].path) THEN <<item>> \o q
  ELSE <<q[1]>> \o InsertByPath(Tail(q), item)

\* the listing as it came, not sorted
Unsorted(data) == data

\* sorted_tree
RECURSIVE sorted_tree(_)
sorted_tree(data) ==
  IF data = <<>> THEN <<>>
  ELSE InsertByPath(sorted_tree(SubSeq(data, 1, Len(data) - 1)), data[Len(data)])

\* The widget after tree.clear(): no node but the root (node 0), and
\* nodes = {"": tree.root}.
ClearedTree == [tn |-> <<>>, nodes |-> (<<>> :> 0)]

\* nodes.get(parent_path, tree.root)
parent_node(nodes, parent_path) ==
  IF parent_path \in DOMAIN nodes THEN nodes[parent_path] ELSE 0

\* One pass of the loop of populate_tree: add_leaf for a blob, add and
\* nodes[path] = new_node for anything else.
AddItem(w, item) ==
  LET parts == RPartition(item.path, "/")
      new   == [parent |-> parent_node(w.nodes, parts[1]),
                name   |-> parts[3],
                icon   |-> IF item.type = "blob" THEN "file" ELSE "folder",
                data   |-> item.path,
                leaf   |-> item.type = "blob"]
  IN  IF item.type = "blob"
      THEN [w EXCEPT !.tn = Append(@, new)]
      ELSE [tn |-> Append(w.tn, new), nodes |-> (item.path :> (Len(w.tn) + 1)) @@ w.nodes]

\* the loop of populate_tree over the sorted items
RECURSIVE AddItems(_, _)
AddItems(w, items) ==
  IF items = <<>> THEN w ELSE AddItems(AddItem(w, items[1]), Tail(items))

\* The widget populate_tree builds from file_tree_data.
BuildTree(data) == AddItems(ClearedTree, sorted_tree(data))

\* BuildTree of every listing a response may carry, computed once
BuiltTrees == {<<l, BuildTree(l)>> : l \in Listings}

\* BuildTree(data), read from BuiltTrees
Built(data) == (CHOOSE p \in BuiltTrees : p[1] = data)[2]

(* ------------------------------ the runs ----------------------------- *)

\* The repo arguments of a run.
Repos ==
  { <<"o", "/", "r">>,
    <<"n", "o", "t", "a", "r", "e", "p", "o">>,
    <<"a", "/", "b", "/", "c">> }

\* The branches get_repo_tree may be called on.
Branches == {"main", "master", "develop"}

\* The keys of the metadata a response may carry: none ({}), or all the
\* report reads.
Metas == {{}, {"stargazers_count", "forks_count", "open_issues_count", "description"}}

\* What requests.get and raise_for_status make of a metadata request: the
\* JSON of a 2xx answer, HTTPError, or another RequestException.
MetaResponses ==
  {[kind |-> k, meta |-> {}] : k \in {"http_error", "transport"}}
    \cup {[kind |-> "ok", meta |-> m] : m \in Metas}

\* What they make of a listing request: JSON with a 'tree', JSON without
\* one, HTTPError, or another RequestException.
TreeResponses ==
  {[kind |-> k, tree |-> <<>>] : k \in {"http_error", "transport", "no_tree"}}
    \cup {[kind |-> "ok", tree |-> l] : l \in Listings}

VARIABLES
  prog,            \* the program run: seer, tui, or a call of get_repo_tree
  repo,            \* the repo argument
  pc,              \* where main (seer), the worker (tui) or the call is
  thread,          \* the thread that took the last step
  branch,          \* the branch parameter of the running get_repo_tree
  reqs,            \* the requests issued so far, each with its answer
  metadata,        \* main: metadata
  file_tree,       \* what get_repo_tree / get_tree returned
  structures,      \* main: structures
  dependencies,    \* main: dependencies
  smells,          \* main: smells
  languages,       \* main: languages
  out,             \* what console.print has printed
  exit_code,       \* the exit code of the process, once it has ended
  mounted,         \* SeerApp: on_mount has run
  workers,         \* SeerApp: the workers run_worker has started
  file_tree_data,  \* SeerApp.file_tree_data
  tree_display,    \* Tree.display
  tree_nodes,      \* the nodes of the Tree under its root
  tree_expanded,   \* tree.root is expanded
  tree_focus,      \* the Tree has the focus
  status_display,  \* #status-line .display
  status_text,     \* the text of #status-line
  dark,            \* SeerApp.dark
  calls            \* the callbacks call_from_thread has handed over

net == <<branch, reqs, file_tree>>

report == <<metadata, structures, dependencies, smells, languages, out, exit_code>>

widgets == <<tree_display, tree_nodes, tree_expanded, tree_focus, status_display, status_text>>

app == <<mounted, workers, file_tree_data, dark, calls>>

vars == <<prog, repo, pc, thread, net, report, widgets, app>>

\* not x, for a list that may be None
FalsyList(o) == IF o = None THEN TRUE ELSE Get(o) = <<>>

\* not x, for a dict that may be None
FalsyDict(o) == IF o = None THEN TRUE ELSE Get(o) = {}

\* repo.split('/', 1) in place of repo.split('/'): one separator or more
SplitOnce(r) == Len(Split(r, "/")) >= 2

\* owner, name = repo.split('/') does not raise ValueError
ValidRepo(r) == Len(Split(r, "/")) = 2

\* if branch != "master" in place of if branch == "main"
FallbackUnlessMaster(b) == b # "master"

\* if branch == "main": the HTTPError handler calls the function again
ShouldFallback(b) == b = "main"

\* if not metadata and not file_tree
MissingBoth(m, f) == IF FalsyDict(m) THEN FalsyList(f) ELSE FALSE

\* if not metadata or not file_tree
Missing(m, f) == IF FalsyDict(m) THEN TRUE ELSE FalsyList(f)

\* the thread a step of the run's own code is on
RunThread == IF prog = "tui" THEN "worker" ELSE "main"

Init ==
  /\ prog \in {"seer", "tui", "get_repo_tree"}
  /\ repo \in (IF prog = "get_repo_tree" THEN {<<"o", "/", "r">>} ELSE Repos)
  /\ branch \in (IF prog = "get_repo_tree" THEN Branches ELSE {"main"})
  /\ pc = (IF prog = "seer" THEN "start" ELSE IF prog = "tui" THEN "unmounted" ELSE "tree")
  /\ thread = "main"
  /\ reqs = <<>>
  /\ metadata = None
  /\ file_tree = None
  /\ structures = None
  /\ dependencies = None
  /\ smells = None
  /\ languages = None
  /\ out = <<>>
  /\ exit_code = None
  /\ mounted = FALSE
  /\ workers = 0
  /\ file_tree_data = None
  /\ tree_display = TRUE
  /\ tree_nodes = <<>>
  /\ tree_expanded = FALSE
  /\ tree_focus = FALSE
  /\ status_display = TRUE
  /\ status_text = "fetching"
  /\ dark = TRUE
  /\ calls = <<>>

(* ------------------------------ requests ----------------------------- *)

\* a request as it leaves, not answered yet
Request(api, b) == [api |-> api, branch |-> b, kind |-> "pending", tree |-> <<>>]

\* the log with the answer to its last request filled in
Answered(log, kind, tree) ==
  [log EXCEPT ![Len(log)] = [@ EXCEPT !.kind = kind, !.tree = tree]]

\* get_repo_metadata: requests.get(api_url) leaves
SendMetadata ==
  /\ pc = "metadata"
  /\ reqs' = Append(reqs, Request("metadata", "-"))
  /\ pc' = "metadata_wait"
  /\ thread' = RunThread
  /\ UNCHANGED <<prog, repo, branch, file_tree, report, widgets, app>>

\* get_repo_metadata: the answer; response.json(), or None on any
\* RequestException
RecvMetadata(resp) ==
  /\ pc = "metadata_wait"
  /\ reqs' = Answered(reqs, resp.kind, <<>>)
  /\ metadata' = (IF resp.kind = "ok" THEN Some(resp.meta) ELSE None)
  /\ pc' = "tree"
  /\ thread' = RunThread
  /\ UNCHANGED <<prog, repo, branch, file_tree, structures, dependencies, smells,
                 languages, out, exit_code, widgets, app>>

\* get_repo_tree / get_tree: requests.get(api_url) for the branch leaves
SendTree ==
  /\ pc = "tree"
  /\ reqs' = Append(reqs, Request("tree", branch))
  /\ pc' = "tree_wait"
  /\ thread' = RunThread
  /\ UNCHANGED <<prog, repo, branch, file_tree, report, widgets, app>>

\* where get_repo_tree / get_tree returns to
Returned == IF prog = "get_repo_tree" THEN "returned" ELSE "check"

\* get_repo_tree / get_tree: the answer. data['tree'] of a 2xx answer (None
\* without one); on HTTPError the call for "master" when the branch was
\* "main", else None; None on any other RequestException.
RecvTree(resp) ==
  /\ pc = "tree_wait"
  /\ reqs' = Answered(reqs, resp.kind, resp.tree)
  /\ IF resp.kind = "http_error" /\ ShouldFallback(branch)
     THEN /\ branch' = "master"
          /\ pc' = "tree"
          /\ UNCHANGED file_tree
     ELSE /\ file_tree' = (IF resp.kind = "ok" THEN Some(resp.tree) ELSE None)
          /\ pc' = Returned
          /\ UNCHANGED branch
  /\ thread' = RunThread
  /\ UNCHANGED <<prog, repo, report, widgets, app>>

(* ------------------------------ seer.py ------------------------------ *)

\* one console.print
Printed(kind, rows) == [kind |-> kind, rows |-> rows]

\* main: owner, name = repo.split('/'), or the error and Exit(code=1)
SeerParse ==
  /\ prog = "seer" /\ pc = "start"
  /\ IF ValidRepo(repo)
     THEN /\ pc' = "metadata"
          /\ UNCHANGED <<out, exit_code>>
     ELSE /\ out' = Append(out, Printed("invalid_format", <<>>))
          /\ exit_code' = Some(1)
          /\ pc' = "exit"
  /\ thread' = "main"
  /\ UNCHANGED <<prog, repo, net, metadata, structures, dependencies, smells, languages,
                 widgets, app>>

\* main: the check of the two results, then the four analyzers
SeerAnalyze ==
  /\ prog = "seer" /\ pc = "check"
  /\ IF Missing(metadata, file_tree)
     THEN /\ out' = out \o <<Printed("fatal", <<>>), Printed("hint_public", <<>>),
                             Printed("hint_branch", <<>>)>>
          /\ exit_code' = Some(1)
          /\ pc' = "exit"
          /\ UNCHANGED <<structures, dependencies, smells, languages>>
     ELSE /\ structures' = Some(analyze_project_structure(Get(file_tree)))
          /\ dependencies' = Some(analyze_dependencies(Get(file_tree)))
          /\ smells' = Some(analyze_code_smells(Get(file_tree)))
          /\ languages' = Some(analyze_languages(Get(file_tree)))
          /\ pc' = "report"
          /\ UNCHANGED <<out, exit_code>>
  /\ thread' = "main"
  /\ UNCHANGED <<prog, repo, net, metadata, widgets, app>>

\* the rows main adds to the table
Rows ==
  (IF Keys(Get(languages)) # {} THEN <<"Top Languages">> ELSE <<>>)
    \o (IF Get(structures) # <<>> THEN <<"Architecture">> ELSE <<>>)
    \o (IF Get(dependencies) # <<>> THEN <<"Dependencies">> ELSE <<>>)
    \o <<"Red Flags">>

\* main: the empty line, the panel and the table; the process ends with 0
SeerReport ==
  /\ prog = "seer" /\ pc = "report"
  /\ out' = out \o <<Printed("blank", <<>>), Printed("panel", <<>>), Printed("table", Rows)>>
  /\ exit_code' = Some(0)
  /\ pc' = "exit"
  /\ thread' = "main"
  /\ UNCHANGED <<prog, repo, net, metadata, structures, dependencies, smells, languages,
                 widgets, app>>

(* ----------------------------- seer-tui.py --------------------------- *)

\* what the user sees of a widget: nothing before the app is mounted
TreeVisible == mounted /\ tree_display

\* what the user sees of the status line
StatusVisible == mounted /\ status_display

\* on_mount without its first line: the tree keeps the display it was made with
TreeLeftShown == TRUE

\* on_mount: self.query_one(Tree).display = False
TreeDisplayOnMount == FALSE

\* on_mount: hide the tree, start load_repo_data in a thread
on_mount ==
  /\ prog = "tui" /\ pc = "unmounted"
  /\ mounted' = TRUE
  /\ tree_display' = TreeDisplayOnMount
  /\ workers' = workers + 1
  /\ pc' = "start"
  /\ thread' = "main"
  /\ UNCHANGED <<prog, repo, net, report, tree_nodes, tree_expanded, tree_focus,
                 status_display, status_text, file_tree_data, dark, calls>>

\* populate_tree, on the thread of the app
populate_tree ==
  IF FalsyList(file_tree_data)
  THEN /\ status_text' = "no_file_data"
       /\ UNCHANGED <<tree_display, tree_nodes, tree_expanded, tree_focus, status_display>>
  ELSE /\ tree_nodes' = Built(Get(file_tree_data)).tn
       /\ tree_expanded' = TRUE
       /\ status_display' = FALSE
       /\ tree_display' = TRUE
       /\ tree_focus' = TRUE
       /\ UNCHANGED status_text

\* a callback: populate_tree, or the update of #status-line with a text
Callback(fn, text) == [fn |-> fn, text |-> text]

\* cb called by the worker itself, without call_from_thread
direct_call(cb) ==
  /\ calls' = calls
  /\ pc' = "exit"
  /\ IF cb.fn = "populate_tree"
     THEN populate_tree
     ELSE /\ status_text' = cb.text
          /\ UNCHANGED <<tree_display, tree_nodes, tree_expanded, tree_focus, status_display>>

\* the worker returning without handing cb over
dropped_call(cb) ==
  /\ calls' = calls
  /\ pc' = "exit"
  /\ UNCHANGED widgets

\* self.call_from_thread(cb): hands cb to the thread of the app and waits
\* for it there
call_from_thread(cb) ==
  /\ calls' = Append(calls, cb)
  /\ pc' = "blocked"
  /\ UNCHANGED widgets

\* load_repo_data: owner, name = self.repo_full_name.split('/'), or the
\* status line and return
WorkerParse ==
  /\ prog = "tui" /\ pc = "start"
  /\ IF ValidRepo(repo)
     THEN /\ pc' = "tree"
          /\ UNCHANGED <<calls, widgets>>
     ELSE call_from_thread(Callback("update", "invalid_format"))
  /\ thread' = "worker"
  /\ UNCHANGED <<prog, repo, net, report, mounted, workers, file_tree_data, dark>>

\* load_repo_data: self.file_tree_data = tree_data, when tree_data is not
\* empty
WorkerStore ==
  /\ prog = "tui" /\ pc = "check"
  /\ ~FalsyList(file_tree)
  /\ file_tree_data' = file_tree
  /\ pc' = "dispatch"
  /\ thread' = "worker"
  /\ UNCHANGED <<prog, repo, net, report, widgets, mounted, workers, dark, calls>>

\* load_repo_data: self.call_from_thread(self.populate_tree)
WorkerDispatch ==
  /\ prog = "tui" /\ pc = "dispatch"
  /\ call_from_thread(Callback("populate_tree", "-"))
  /\ thread' = "worker"
  /\ UNCHANGED <<prog, repo, net, report, mounted, workers, file_tree_data, dark>>

\* load_repo_data: the else branch, the status line of the failure
WorkerFail ==
  /\ prog = "tui" /\ pc = "check"
  /\ FalsyList(file_tree)
  /\ call_from_thread(Callback("update", "could_not_load"))
  /\ thread' = "worker"
  /\ UNCHANGED <<prog, repo, net, report, mounted, workers, file_tree_data, dark>>

\* the app runs the callback populate_tree; the worker's call returns
RunPopulateTree ==
  /\ calls # <<>> /\ calls[1].fn = "populate_tree"
  /\ populate_tree
  /\ calls' = Tail(calls)
  /\ pc' = "exit"
  /\ thread' = "main"
  /\ UNCHANGED <<prog, repo, net, report, mounted, workers, file_tree_data, dark>>

\* the app runs the callback Static.update(text); the worker's call returns
RunStatusUpdate ==
  /\ calls # <<>> /\ calls[1].fn = "update"
  /\ status_text' = calls[1].text
  /\ calls' = Tail(calls)
  /\ pc' = "exit"
  /\ thread' = "main"
  /\ UNCHANGED <<prog, repo, net, report, mounted, workers, file_tree_data, dark,
                 tree_display, tree_nodes, tree_expanded, tree_focus, status_display>>

\* action_toggle_theme: self.dark = not self.dark
action_toggle_theme ==
  /\ prog = "tui" /\ mounted
  /\ dark' = ~dark
  /\ thread' = "main"
  /\ UNCHANGED <<prog, repo, pc, net, report, widgets, mounted, workers, file_tree_data, calls>>

(* --------------------------- specifications -------------------------- *)

\* the steps of seer.py
SeerSteps ==
  \/ SeerParse
  \/ SendMetadata
  \/ \E resp \in MetaResponses : RecvMetadata(resp)
  \/ SeerAnalyze
  \/ SeerReport

\* the steps of the listing fetch
FetchSteps ==
  \/ SendTree
  \/ \E resp \in TreeResponses : RecvTree(resp)

\* the steps of seer-tui.py but the user's own
TuiSteps ==
  \/ on_mount
  \/ WorkerParse
  \/ WorkerStore
  \/ WorkerDispatch
  \/ WorkerFail
  \/ RunPopulateTree
  \/ RunStatusUpdate

Next == SeerSteps \/ FetchSteps \/ TuiSteps \/ action_toggle_theme

Spec == Init /\ [][Next]_vars

\* a run of seer-tui.py
TuiInit == Init /\ prog = "tui"

\* its steps
TuiNext == FetchSteps \/ TuiSteps \/ action_toggle_theme

\* The runs of seer-tui.py in which every request returns or fails, the
\* worker runs, and the app runs the callbacks handed to it.
FairSpec == TuiInit /\ [][TuiNext]_vars /\ WF_vars(FetchSteps \/ TuiSteps)

(* ------------------------------- claims ------------------------------ *)

\* the listing requests issued so far, in order
RECURSIVE TreeRequests(_)
TreeRequests(log) ==
  IF log = <<>> THEN <<>>
  ELSE (IF log[1].api = "tree" THEN <<log[1]>> ELSE <<>>) \o TreeRequests(Tail(log))

\* get_repo_tree / get_tree has returned to its caller
FetchReturned ==
  TreeRequests(reqs) # <<>> /\ pc \in {"check", "returned", "report", "dispatch", "blocked", "exit"}

\* C1: a second listing request, for "master", is issued if and only if the
\* first was for "main" and was answered with an HTTP error status; any other
\* failure ends the fetch with None and no further request, a fetch makes at
\* most two requests, and it returns the listing of its last request when
\* that one succeeded.
C1_Fallback ==
  LET T == TreeRequests(reqs)
  IN  /\ Len(T) <= 2
      /\ Len(T) = 2 =>
           /\ T[1].branch = "main" /\ T[1].kind = "http_error"
           /\ T[2].branch = "master"
      /\ (Len(T) = 1 /\ T[1].branch = "main" /\ T[1].kind = "http_error") => pc = "tree"
      /\ FetchReturned =>
           /\ T[Len(T)].kind # "pending"
           /\ ~(Len(T) = 1 /\ T[1].branch = "main" /\ T[1].kind = "http_error")
           /\ file_tree = (IF T[Len(T)].kind = "ok" THEN Some(T[Len(T)].tree) ELSE None)

\* C1, witness: "main" answered with an HTTP error, "master" with a listing,
\* which the fetch returned.
C1_Witness ==
  LET T == TreeRequests(reqs)
  IN  /\ FetchReturned
      /\ Len(T) = 2
      /\ T[1].branch = "main" /\ T[1].kind = "http_error"
      /\ T[2].branch = "master" /\ T[2].kind = "ok" /\ T[2].tree # <<>>
      /\ file_tree = Some(T[2].tree)

\* Populated: populate_tree has built the tree
Populated == tree_expanded

\* Failed: the status line carries the reason of a failure
Failed == status_text # "fetching"

\* Loading: the app is mounted and has reached neither
Loading == mounted /\ ~Populated /\ ~Failed

\* some listing request was answered with the listing l
Fetched(l) == \E i \in 1..Len(reqs) : reqs[i].api = "tree" /\ reqs[i].kind = "ok" /\ reqs[i].tree = l

\* C3: the tree view is visible only in Populated, that is after a fetch
\* returned a listing that is not empty and the tree was built from it; in
\* Loading and in Failed the tree is hidden and the status line shown; in
\* Populated the status line is hidden and the tree shown; the two are never
\* both visible.
C3_Visibility ==
  /\ ~(TreeVisible /\ StatusVisible)
  /\ TreeVisible =>
       /\ Populated
       /\ file_tree_data # None
       /\ Get(file_tree_data) # <<>>
       /\ Fetched(Get(file_tree_data))
       /\ tree_nodes = BuildTree(Get(file_tree_data)).tn
  /\ (Loading \/ Failed) => (~TreeVisible /\ StatusVisible)
  /\ Populated => (TreeVisible /\ ~StatusVisible /\ ~Failed)

\* C3, witness: Populated, the tree shown in place of the status line.
C3_Witness == prog = "tui" /\ Populated /\ TreeVisible /\ ~StatusVisible /\ tree_nodes # <<>>

\* the argument holds exactly one '/'
ExactlyOneSeparator(r) == Cardinality(Positions(r, "/")) = 1

\* C4: with a repo argument that does not hold exactly one '/', seer ends
\* with exit code 1, the app enters Failed, and no request is ever issued.
C4_MalformedRepo ==
  ~ExactlyOneSeparator(repo) =>
    /\ reqs = <<>>
    /\ prog = "seer" => (pc \in {"start", "exit"} /\ (pc = "exit" => exit_code = Some(1)))
    /\ prog = "tui" =>
         /\ pc \in {"unmounted", "start", "blocked", "exit"}
         /\ ~Populated
         /\ pc = "exit" => (Failed /\ status_text = "invalid_format")

\* C4, witness: seer has ended with 1 on an argument with two separators.
C4_Witness ==
  /\ prog = "seer" /\ repo = <<"a", "/", "b", "/", "c">>
  /\ pc = "exit" /\ exit_code = Some(1) /\ reqs = <<>>

\* main has printed a part of the report
ReportPrinted == \E i \in 1..Len(out) : out[i].kind \in {"blank", "panel", "table"}

\* an analyzer has run
AnalyzerRan == structures # None \/ dependencies # None \/ smells # None \/ languages # None

\* a request of the kind was answered with a result
Answer(api) == \E i \in 1..Len(reqs) : reqs[i].api = api /\ reqs[i].kind = "ok"

\* C5: seer prints no part of the report and runs no analyzer unless both the
\* metadata and the listing were obtained; when either is None the run ends
\* with exit code 1 and no report.
C5_NoPartialReport ==
  prog = "seer" =>
    /\ (ReportPrinted \/ AnalyzerRan \/ pc = "report") =>
         /\ metadata # None /\ file_tree # None
         /\ Answer("metadata") /\ Answer("tree")
    /\ (pc = "exit" /\ (metadata = None \/ file_tree = None)) =>
         /\ exit_code = Some(1)
         /\ ~ReportPrinted /\ ~AnalyzerRan
    /\ ReportPrinted => exit_code = Some(0)

\* C5, witness: the listing was obtained, the metadata was not, and seer has
\* ended with 1.
C5_Witness ==
  /\ prog = "seer" /\ pc = "exit"
  /\ metadata = None /\ file_tree # None /\ Get(file_tree) # <<>>
  /\ exit_code = Some(1) /\ ~ReportPrinted

\* The labels on the way from the root to node i of a widget.
RECURSIVE Walk(_, _)
Walk(tn, i) == IF i = 0 THEN <<>> ELSE Walk(tn, tn[i].parent) \o <<tn[i].name>>

\* the segments joined by "/"
RECURSIVE Join(_)
Join(parts) ==
  IF parts = <<>> THEN <<>>
  ELSE IF Len(parts) = 1 THEN parts[1]
  ELSE parts[1] \o <<"/">> \o Join(Tail(parts))

\* the paths of a listing are unique
UniquePaths(l) == \A i, j \in 1..Len(l) : l[i].path = l[j].path => i = j

\* the File entries of a listing
Files(l) == {l[i] : i \in {j \in 1..Len(l) : l[j].type = "blob"}}

\* the leaves of the tree that carry the path p
LeavesOf(p) == {i \in 1..Len(tree_nodes) : tree_nodes[i].leaf /\ tree_nodes[i].data = p}

\* the leaves of the tree reached from the root by the segments of p
LeavesAt(p) ==
  {i \in 1..Len(tree_nodes) : tree_nodes[i].leaf /\ Walk(tree_nodes, i) = Split(p, "/")}

\* the path of the directory that holds p
ParentPath(p) == RPartition(p, "/")[1]

\* the paths of the directories above p, "" left out
Ancestors(p) ==
  LET parts == Split(p, "/")
  IN  {Join(SubSeq(parts, 1, n)) : n \in 1..(Len(parts) - 1)}

\* a Directory entry of the listing carries the path p
ListedDirectory(l, p) == \E i \in 1..Len(l) : l[i].type = "tree" /\ l[i].path = p

\* C2, as stated: with unique paths, every File entry is exactly one leaf,
\* reached from the root by the segments of its path, also when its parent
\* directory is not listed.
C2_Original ==
  (prog = "tui" /\ Populated /\ UniquePaths(Get(file_tree_data))) =>
    \A e \in Files(Get(file_tree_data)) : Cardinality(LeavesAt(e.path)) = 1

\* C2, amended: with unique paths, every File entry is exactly one leaf that
\* carries its path; the leaf is under the node of its parent directory when
\* that directory is listed, and directly under the root when it is not; the
\* labels from the root spell the path when every directory above it is
\* listed and no path is empty.
C2_Amended ==
  (prog = "tui" /\ Populated /\ UniquePaths(Get(file_tree_data))) =>
    LET l == Get(file_tree_data)
    IN  \A e \in Files(l) :
          /\ Cardinality(LeavesOf(e.path)) = 1
          /\ \A i \in LeavesOf(e.path) :
               LET p == tree_nodes[i].parent
               IN  /\ ListedDirectory(l, ParentPath(e.path)) =>
                        /\ p # 0
                        /\ ~tree_nodes[p].leaf
                        /\ tree_nodes[p].data = ParentPath(e.path)
                   /\ ~ListedDirectory(l, ParentPath(e.path)) => p = 0
                   /\ ((\A a \in Ancestors(e.path) : ListedDirectory(l, a))
                         /\ (\A k \in 1..Len(l) : l[k].path # <<>>)) =>
                        Walk(tree_nodes, i) = Split(e.path, "/")

\* C2, witness: "src/.env" alone, its leaf directly under the root.
C2_Witness ==
  /\ prog = "tui" /\ Populated
  /\ Get(file_tree_data) = <<Entry(<<"s", "r", "c", "/", ".", "e", "n", "v">>, "blob")>>
  /\ Len(tree_nodes) = 1 /\ tree_nodes[1].parent = 0 /\ tree_nodes[1].leaf

\* the extension the histogram is to read: the text from the last dot on,
\* none when the path has no dot or its last dot is its first character
ExtensionOf(p) ==
  IF Positions(p, ".") = {} \/ Max(Positions(p, ".") \cup {0}) = 1
  THEN <<>>
  ELSE SubSeq(p, Max(Positions(p, ".")), Len(p))

\* the number of File entries of l whose extension maps to the language
FilesIn(l, lang) ==
  Cardinality({i \in 1..Len(l) :
                 /\ l[i].type = "blob"
                 /\ <<ExtensionOf(l[i].path), lang>> \in lang_map})

\* C6, as stated: analyze_languages counts, per language, the File entries
\* whose last extension is in the table; directories, paths without a dot,
\* paths whose dot is their first character and unknown extensions count
\* nowhere.
C6_Histogram ==
  (prog = "seer" /\ languages # None) =>
    \A lang \in Languages : Get(languages)[lang] = FilesIn(Get(file_tree), lang)

\* C7, as stated: analyze_dependencies returns the basenames of the File
\* entries that are manifest names, each once, in ascending order.
C7_Dependencies ==
  (prog = "seer" /\ dependencies # None) =>
    Get(dependencies) =
      SortedSet({Basename(e.path) : e \in {f \in Files(Get(file_tree)) : Basename(f.path) \in dep_files}})

\* the listing without its entries of empty path
RECURSIVE WithoutEmpty(_)
WithoutEmpty(l) ==
  IF l = <<>> THEN <<>>
  ELSE (IF l[1].path = <<>> THEN <<>> ELSE <<l[1]>>) \o WithoutEmpty(Tail(l))

\* C10, as stated: an entry of empty path gets no node, "" still maps to the
\* root, and the other entries are placed as without it.
C10_EmptyPathSkipped ==
  (prog = "tui" /\ Populated) =>
    /\ \A i \in 1..Len(tree_nodes) : tree_nodes[i].data # <<>>
    /\ BuildTree(Get(file_tree_data)).nodes[<<>>] = 0
    /\ tree_nodes = BuildTree(WithoutEmpty(Get(file_tree_data))).tn

\* the state of the app object and of its widgets
app_state == <<file_tree_data, mounted, workers, dark, widgets>>

\* C8, as stated: no step of the worker thread changes the state of the app
\* or of its widgets; the listing, too, reaches it only in a callback.
C8_Original == [][thread' = "worker" => UNCHANGED app_state]_vars

\* C8, amended: the worker itself writes file_tree_data, before it hands
\* over populate_tree, and nothing else of the app; the widgets change only
\* in on_mount and in a callback the app takes from call_from_thread, on the
\* thread of the app.
C8_Amended ==
  [][/\ thread' = "worker" =>
          /\ UNCHANGED <<mounted, workers, dark, widgets>>
          /\ file_tree_data' # file_tree_data =>
               (pc = "check" /\ pc' = "dispatch" /\ file_tree_data' = file_tree /\ calls' = calls)
     /\ widgets' # widgets =>
          /\ thread' = "main"
          /\ (~mounted /\ mounted') \/ (calls # <<>> /\ calls' = Tail(calls))
    ]_vars

\* C8, witness: the worker has stored the listing and handed populate_tree
\* over; the widgets are as on_mount left them.
C8_Witness ==
  /\ thread = "worker" /\ pc = "blocked"
  /\ file_tree_data # None
  /\ calls = <<Callback("populate_tree", "-")>>
  /\ ~tree_display /\ tree_nodes = <<>>

\* C9: a cycle in Loading reaches Populated or Failed; one worker is started
\* per cycle; Populated and Failed are never left, nor exchanged.
C9_Terminal ==
  /\ (prog = "tui" /\ Loading) ~> (Populated \/ Failed)
  /\ [](mounted => workers = 1)
  /\ [][/\ Populated => (Populated' /\ ~Failed')
        /\ Failed => (Failed' /\ ~Populated' /\ status_text' = status_text)]_vars

\* C9, witness: the cycle has ended in Failed on a fetch that returned None,
\* with the one worker done.
C9_Witness ==
  /\ prog = "tui" /\ pc = "exit" /\ workers = 1
  /\ reqs # <<>> /\ file_tree = None
  /\ Failed /\ ~Populated /\ calls = <<>>

====
